---- MODULE Spec2Model ----
(***************************************************************************)
(* Model of a-matrix-client: the retry driver of src/client.py.            *)
(*                                                                         *)
(* Time.  time.monotonic_ns() readings are modelled in whole milliseconds  *)
(* (one unit of `now` and `end_time` is 1_000_000 ns), so                  *)
(* `limit * 1_000_000` ns is `limit` units and                             *)
(* `(end_time - time.monotonic_ns()) / 1_000_000` is `end_time - now`.     *)
(* asyncio.sleep() takes SECONDS: sleeping x suspends for 1000 * x units.  *)
(* The clock is monotonic but need not advance between two readings.       *)
(***************************************************************************)
EXTENDS Integers, Sequences, FiniteSets, TLC

VARIABLES
    pc,         \* position of the retry coroutine (the await it is suspended in)
    limit,      \* argument `limit` (ms)
    now,        \* the monotonic clock (ms)
    end_time,   \* local end_time (ms)
    backoff,    \* local backoff
    resp,       \* local resp: the response of the current iteration
    result,     \* local result: the decoded body
    delay,      \* argument of the pending asyncio.sleep call (seconds)
    attempts,   \* number of calls of req_func so far
    decodes,    \* number of calls of resp.json() so far
    released,   \* ids of the responses on which release() was awaited
    sleeps,     \* number of asyncio.sleep calls begun
    backoffs,   \* number of asyncio.sleep calls begun on the except path
    returned,   \* the response retry returned, NoResp before
    exc,        \* the exception that escaped retry, "none" before
    cancelled,  \* the await in which the task was cancelled, "none" before
    verdict,    \* what check_response did with the response it was given
    value,      \* is_valid: argument body
    schema,     \* is_valid: argument schema
    valid       \* is_valid: its outcome

vars == <<pc, limit, now, end_time, backoff, resp, result, delay, attempts,
          decodes, released, sleeps, backoffs, returned, exc, cancelled,
          verdict, value, schema, valid>>

\* What the steps of retry itself leave alone.
aside == <<cancelled, verdict, value, schema, valid>>

----------------------------------------------------------------------------
\* Bounds of the model.

MaxAttempts == 3        \* calls of req_func explored per retry sequence
MaxStep == 1            \* longest time (ms) a request or a release takes
MaxHeaderLen == 1       \* longest Retry-After header text
MaxKeys == 2            \* keys a dict or a dict schema is built from
MaxListLen == 2         \* longest list

\* Program constants.

InitialBackoff == 2     \* backoff = 2
MsPerSecond == 1000     \* delay_ms / 1_000; asyncio.sleep counts seconds
SuccessBelow == 400     \* resp.status < 400
TooManyRequests == 429  \* resp.status == 429

Min(a, b) == IF a <= b THEN a ELSE b
Max(a, b) == IF a >= b THEN a ELSE b

----------------------------------------------------------------------------
\* Inputs: what req_func may produce and what the caller may pass.

Limits == {-1, 0, 1, 1600, 5000}
Durations == 0 .. MaxStep
Statuses == {100, 200, 429, 503}
HeaderChars == {"1", "x"}
RetryAfterMsValues == {-1500, 0, 1500}

HeaderTexts == UNION {[1 .. n -> HeaderChars] : n \in 0 .. MaxHeaderLen}

\* resp.headers, as far as retry looks at it: the Retry-After entry.
Headers ==
    {[present |-> FALSE, text |-> <<>>]}
        \cup {[present |-> TRUE, text |-> t] : t \in HeaderTexts}

\* The outcome of resp.json().  kind "undecodable": json() raises.
\* has_errcode: `"errcode" in result` (a key of an object, an element of an
\* array, a substring of a string).  ram_type/ram: result.get("retry_after_ms").
Body(k, h, e, t, m) ==
    [kind |-> k, has_errcode |-> h, errcode |-> e, ram_type |-> t, ram |-> m]

Bodies ==
    {Body("undecodable", FALSE, "", "absent", 0),
     Body("scalar", FALSE, "", "absent", 0),
     Body("string", FALSE, "", "absent", 0),
     Body("string", TRUE, "", "absent", 0),
     Body("array", FALSE, "", "absent", 0),
     Body("array", TRUE, "", "absent", 0),
     Body("object", FALSE, "", "absent", 0),
     Body("object", FALSE, "", "int", 1),
     Body("object", TRUE, "M_UNKNOWN", "absent", 0),
     Body("object", TRUE, "M_UNKNOWN", "int", 1),
     Body("object", TRUE, "M_LIMIT_EXCEEDED", "absent", 0),
     Body("object", TRUE, "M_LIMIT_EXCEEDED", "other", 0)}
        \cup {Body("object", TRUE, "M_LIMIT_EXCEEDED", "int", m) :
                m \in RetryAfterMsValues}

NoBody == Body("none", FALSE, "", "absent", 0)

Response(i, s, h, b) == [id |-> i, status |-> s, headers |-> h, body |-> b]

NoResp == Response(0, 0, [present |-> FALSE, text |-> <<>>], NoBody)

\* What req_func may return (the id is set by the call that returns it).  retry reads the headers of
\* a 429 only and never decodes a response below 400, so the other statuses
\* come with two headers, and those below 400 with three bodies.
PlainHeaders ==
    {[present |-> FALSE, text |-> <<>>], [present |-> TRUE, text |-> <<"1">>]}

PlainBodies ==
    {Body("undecodable", FALSE, "", "absent", 0),
     Body("object", FALSE, "", "absent", 0),
     Body("object", TRUE, "M_UNKNOWN", "absent", 0)}

Responses ==
    {Response(0, s, h, b) :
        s \in {st \in Statuses : st < 400}, h \in PlainHeaders, b \in PlainBodies}
    \cup {Response(0, s, h, b) :
        s \in {st \in Statuses : st >= 400} \ {429}, h \in PlainHeaders, b \in Bodies}
    \cup {Response(0, 429, h, b) : h \in Headers, b \in Bodies}

----------------------------------------------------------------------------
\* The tests of retry, as the code makes them.

\* Mutant of IsSuccess: the lower bound of check_response taken for the test.
IsSuccessBelow200(status) == status < 200

\* `resp.status < 400`
IsSuccess(status) == status < SuccessBelow

\* `time.monotonic_ns() > end_time`
PastDeadline(t, end) == t > end

\* re.match(r"^[\d]+$", text): one or more characters, every one a digit.
IsDigit(c) == c \in {"0", "1", "2", "3", "4", "5", "6", "7", "8", "9"}
MatchesDigits(text) ==
    /\ Len(text) >= 1
    /\ \A k \in 1 .. Len(text) : IsDigit(text[k])

\* int(text) of a text of decimal digits.
DigitValue(c) ==
    CASE c = "0" -> 0 [] c = "1" -> 1 [] c = "2" -> 2 [] c = "3" -> 3
      [] c = "4" -> 4 [] c = "5" -> 5 [] c = "6" -> 6 [] c = "7" -> 7
      [] c = "8" -> 8 [] c = "9" -> 9
RECURSIVE ParseInt(_)
ParseInt(text) ==
    IF text = <<>> THEN 0
    ELSE 10 * ParseInt(SubSeq(text, 1, Len(text) - 1)) + DigitValue(text[Len(text)])

\* resp.status == 429 and "Retry-After" in resp.headers and re.match(...)
IsRetryAfter(r) ==
    /\ r.status = TooManyRequests
    /\ r.headers.present
    /\ MatchesDigits(r.headers.text)

\* "errcode" in result and result["errcode"] == "M_LIMIT_EXCEEDED"
\*     and type(result.get("retry_after_ms")) == int
\* `in` raises TypeError on None, a bool or a number; result["errcode"] raises
\* TypeError on a string or an array that contains "errcode".
LimitExceededTest(b) ==
    CASE b.kind = "scalar" -> "TypeError"
      [] b.kind \in {"string", "array"} ->
            IF b.has_errcode THEN "TypeError" ELSE "no"
      [] OTHER ->
            IF /\ b.has_errcode
               /\ b.errcode = "M_LIMIT_EXCEEDED"
               /\ b.ram_type = "int"
            THEN "yes" ELSE "no"

\* min(backoff, (end_time - time.monotonic_ns()) / 1_000_000)
BackoffDelay(b, end, t) == Min(b, end - t)

\* backoff = backoff * 2
NextBackoff(b) == b * 2

\* Mutant of CeilSeconds: integer division, which rounds down.
FloorSeconds(ms) == ms \div MsPerSecond

\* math.ceil(delay_ms / 1_000); \div rounds towards minus infinity.  The
\* float quotient has the ceiling of the exact one for |delay_ms| < 2^53.
CeilSeconds(ms) == -((-ms) \div MsPerSecond)

\* time.monotonic_ns() + delay_ms * 1_000_000 > end_time
HintPastDeadline(t, ms, end) == t + ms > end

\* asyncio.sleep(x) suspends for x seconds, and not at all when x <= 0.
SleepSpan(x) == MsPerSecond * Max(0, x)

\* check_response and is_valid before they are called.
NoVerdict == [kind |-> "none", status |-> 0, body |-> NoBody]
NoValue == [kind |-> "none"]
NoSchema == [tag |-> "none"]

----------------------------------------------------------------------------
\* The state machine of one call of retry.

Init ==
    /\ pc = "entry"
    /\ limit \in Limits
    /\ now = 0
    /\ end_time = 0
    /\ backoff = 0
    /\ resp = NoResp
    /\ result = NoBody
    /\ delay = 0
    /\ attempts = 0
    /\ decodes = 0
    /\ released = {}
    /\ sleeps = 0
    /\ backoffs = 0
    /\ returned = NoResp
    /\ exc = "none"
    /\ cancelled = "none"
    /\ verdict = NoVerdict
    /\ value = NoValue
    /\ schema = NoSchema
    /\ valid = "none"

\* return resp
Return(r) ==
    /\ pc' = "done"
    /\ returned' = r
    /\ exc' = exc

\* an exception leaves retry
Raise(e) ==
    /\ pc' = "raised"
    /\ exc' = e
    /\ returned' = returned

\* `continue`: the next iteration rebinds resp, result and, before it is read
\* again, delay.
Continue ==
    /\ pc' = "request"
    /\ resp' = NoResp
    /\ result' = NoBody
    /\ delay' = 0
    /\ UNCHANGED <<returned, exc>>

\* Mutant of Entry: the deadline is tested before the first request.
EntryTestsDeadlineFirst ==
    /\ pc = "entry"
    /\ end_time' = now + limit
    /\ backoff' = InitialBackoff
    /\ IF now >= end_time'
       THEN Return(resp)
       ELSE /\ pc' = "request"
            /\ UNCHANGED <<returned, exc>>
    /\ UNCHANGED <<limit, now, resp, result, delay, attempts, decodes,
                   released, sleeps, backoffs>>
    /\ UNCHANGED aside

\* end_time = time.monotonic_ns() + limit * 1_000_000; backoff = 2; the loop
\* is entered and req_func is called.
Entry ==
    /\ pc = "entry"
    /\ end_time' = now + limit
    /\ backoff' = InitialBackoff
    /\ pc' = "request"
    /\ UNCHANGED <<limit, now, resp, result, delay, attempts, decodes,
                   released, sleeps, backoffs, returned, exc>>
    /\ UNCHANGED aside

\* resp = await req_func(...) completes with r after d; then the status test
\* and, for an error status, the call of resp.json().
Request(r, d) ==
    /\ pc = "request"
    /\ attempts < MaxAttempts
    /\ attempts' = attempts + 1
    /\ now' = now + d
    /\ resp' = [r EXCEPT !.id = attempts']
    /\ IF IsSuccess(r.status)
       THEN /\ Return(resp')
            /\ decodes' = decodes
       ELSE /\ pc' = "decode"
            /\ decodes' = decodes + 1
            /\ UNCHANGED <<returned, exc>>
    /\ UNCHANGED <<limit, end_time, backoff, result, delay, released,
                   sleeps, backoffs>>
    /\ UNCHANGED aside

\* Mutant of DecodeFails: the except clause backs off without testing the
\* deadline.
DecodeFailsAlwaysBacksOff ==
    /\ pc = "decode"
    /\ resp.body.kind = "undecodable"
    /\ pc' = "release_backoff"
    /\ UNCHANGED <<limit, now, end_time, backoff, resp, result, delay,
                   attempts, decodes, released, sleeps, backoffs, returned,
                   exc>>
    /\ UNCHANGED aside

\* await resp.json() raises: the except clause up to resp.release().  The
\* clock is not read between the call of req_func and this point, so the time
\* json() takes is part of the d of Request.
DecodeFails ==
    /\ pc = "decode"
    /\ resp.body.kind = "undecodable"
    /\ now' = now
    /\ IF PastDeadline(now', end_time)
       THEN Return(resp)
       ELSE /\ pc' = "release_backoff"
            /\ UNCHANGED <<returned, exc>>
    /\ UNCHANGED <<limit, end_time, backoff, resp, result, delay, attempts,
                   decodes, released, sleeps, backoffs>>
    /\ UNCHANGED aside

\* Mutant of ReleaseBackoff: the sleep is begun with the response unreleased.
ReleaseBackoffSkipsRelease(d) ==
    /\ pc = "release_backoff"
    /\ now' = now + d
    /\ delay' = BackoffDelay(backoff, end_time, now')
    /\ sleeps' = sleeps + 1
    /\ backoffs' = backoffs + 1
    /\ pc' = "sleep_backoff"
    /\ UNCHANGED <<limit, end_time, backoff, resp, result, attempts, decodes,
                   released, returned, exc>>
    /\ UNCHANGED aside

\* await resp.release() completes after d on the except path; the delay is
\* computed and asyncio.sleep(delay) is begun.
ReleaseBackoff(d) ==
    /\ pc = "release_backoff"
    /\ now' = now + d
    /\ released' = released \cup {resp.id}
    /\ delay' = BackoffDelay(backoff, end_time, now')
    /\ sleeps' = sleeps + 1
    /\ backoffs' = backoffs + 1
    /\ pc' = "sleep_backoff"
    /\ UNCHANGED <<limit, end_time, backoff, resp, result, attempts, decodes,
                   returned, exc>>
    /\ UNCHANGED aside

\* asyncio.sleep(delay) completes; backoff doubles; continue.
SleepBackoff ==
    /\ pc = "sleep_backoff"
    /\ now' = now + SleepSpan(delay)
    /\ backoff' = NextBackoff(backoff)
    /\ Continue
    /\ UNCHANGED <<limit, end_time, attempts, decodes, released, sleeps,
                   backoffs>>
    /\ UNCHANGED aside

\* await resp.json() returns: the if/elif chain up to the next await or
\* return.
DecodeSucceeds ==
    /\ pc = "decode"
    /\ resp.body.kind # "undecodable"
    /\ now' = now
    /\ result' = resp.body
    /\ IF PastDeadline(now', end_time)
       THEN Return(resp)
       ELSE IF IsRetryAfter(resp)
       THEN /\ pc' = "release_retry_after"
            /\ UNCHANGED <<returned, exc>>
       ELSE CASE LimitExceededTest(resp.body) = "TypeError" -> Raise("TypeError")
              [] LimitExceededTest(resp.body) = "yes" ->
                    /\ pc' = "release_rate_limit"
                    /\ UNCHANGED <<returned, exc>>
              [] OTHER -> Return(resp)
    /\ UNCHANGED <<limit, end_time, backoff, resp, delay, attempts, decodes,
                   released, sleeps, backoffs>>
    /\ UNCHANGED aside

\* await resp.release() completes after d on the Retry-After path; then
\* delay = int(res.headers["Retry-After"]): the name res is bound nowhere,
\* so the statement raises NameError and nothing after it runs.
ReleaseRetryAfter(d) ==
    /\ pc = "release_retry_after"
    /\ now' = now + d
    /\ released' = released \cup {resp.id}
    /\ Raise("NameError")
    /\ UNCHANGED <<limit, end_time, backoff, resp, result, delay, attempts,
                   decodes, sleeps, backoffs>>
    /\ UNCHANGED aside

\* await resp.release() completes after d on the M_LIMIT_EXCEEDED path; the
\* hint is tested against the deadline and the sleep is begun.
ReleaseRateLimit(d) ==
    /\ pc = "release_rate_limit"
    /\ now' = now + d
    /\ released' = released \cup {resp.id}
    /\ IF HintPastDeadline(now', result.ram, end_time)
       THEN /\ Return(resp)
            /\ UNCHANGED <<delay, sleeps>>
       ELSE /\ delay' = CeilSeconds(result.ram)
            /\ sleeps' = sleeps + 1
            /\ pc' = "sleep_rate_limit"
            /\ UNCHANGED <<returned, exc>>
    /\ UNCHANGED <<limit, end_time, backoff, resp, result, attempts, decodes,
                   backoffs>>
    /\ UNCHANGED aside

\* asyncio.sleep(math.ceil(delay_ms / 1_000)) completes; continue.
SleepRateLimit ==
    /\ pc = "sleep_rate_limit"
    /\ now' = now + SleepSpan(delay)
    /\ Continue
    /\ UNCHANGED <<limit, end_time, backoff, attempts, decodes, released,
                   sleeps, backoffs>>
    /\ UNCHANGED aside

Next ==
    \/ Entry
    \/ \E d \in Durations : \E r \in Responses : Request(r, d)
    \/ DecodeFails
    \/ \E d \in Durations : ReleaseBackoff(d)
    \/ SleepBackoff
    \/ DecodeSucceeds
    \/ \E d \in Durations : ReleaseRetryAfter(d)
    \/ \E d \in Durations : ReleaseRateLimit(d)
    \/ SleepRateLimit

Spec == Init /\ [][Next]_vars

----------------------------------------------------------------------------
\* retry against a server that answers every request with a retryable
\* response, each request taking at least one unit of the clock, and every
\* await completing (weak fairness of the steps).

\* The responses retry does not return before the deadline: an error status
\* with an undecodable body, a 429 with a Retry-After of digits, or a body
\* with M_LIMIT_EXCEEDED and an integer retry_after_ms.
RetryableResponses ==
    {r \in Responses :
        /\ ~IsSuccess(r.status)
        /\ \/ r.body.kind = "undecodable"
           \/ IsRetryAfter(r)
           \/ LimitExceededTest(r.body) = "yes"}

NextLive ==
    \/ Entry
    \/ \E d \in Durations \ {0} : \E r \in RetryableResponses : Request(r, d)
    \/ DecodeFails
    \/ \E d \in Durations : ReleaseBackoff(d)
    \/ SleepBackoff
    \/ DecodeSucceeds
    \/ \E d \in Durations : ReleaseRetryAfter(d)
    \/ \E d \in Durations : ReleaseRateLimit(d)
    \/ SleepRateLimit

SpecLive == Init /\ [][NextLive]_vars /\ WF_vars(NextLive)

----------------------------------------------------------------------------
\* Cancellation of the task that runs retry.  The task is cancelled while it
\* is suspended in an await, which then raises asyncio.CancelledError; one
\* cancellation per call is explored.

\* Mutant of CancelSleep: the sleep is wrapped in a try with a bare except,
\* and the loop goes on.
CancelSleepSwallowed ==
    /\ pc \in {"sleep_backoff", "sleep_rate_limit"}
    /\ cancelled = "none"
    /\ cancelled' = "sleep"
    /\ backoff' = IF pc = "sleep_backoff" THEN NextBackoff(backoff) ELSE backoff
    /\ Continue
    /\ UNCHANGED <<limit, now, end_time, attempts, decodes, released, sleeps,
                   backoffs, verdict, value, schema, valid>>

\* await asyncio.sleep(...) raises CancelledError.  Neither sleep is inside
\* a try block (the backoff sleep is inside the except clause, whose own
\* exceptions nothing catches), so the exception leaves retry.
CancelSleep ==
    /\ pc \in {"sleep_backoff", "sleep_rate_limit"}
    /\ cancelled = "none"
    /\ cancelled' = "sleep"
    /\ Raise("CancelledError")
    /\ UNCHANGED <<limit, now, end_time, backoff, resp, result, delay,
                   attempts, decodes, released, sleeps, backoffs, verdict,
                   value, schema, valid>>

\* await resp.json() raises CancelledError inside the try block: the bare
\* `except:` catches it like a decode failure, whatever the body is, and
\* runs the except clause up to resp.release().
CancelDecode ==
    /\ pc = "decode"
    /\ cancelled = "none"
    /\ cancelled' = "decode"
    /\ IF PastDeadline(now, end_time)
       THEN Return(resp)
       ELSE /\ pc' = "release_backoff"
            /\ UNCHANGED <<returned, exc>>
    /\ UNCHANGED <<limit, now, end_time, backoff, resp, result, delay,
                   attempts, decodes, released, sleeps, backoffs, verdict,
                   value, schema, valid>>

\* await req_func(...) or await resp.release() raises CancelledError; none
\* of them is inside a try block, so the exception leaves retry.
CancelCall ==
    /\ pc \in {"request", "release_backoff", "release_retry_after",
               "release_rate_limit"}
    /\ pc = "request" => attempts < MaxAttempts
    /\ cancelled = "none"
    /\ cancelled' = IF pc = "request" THEN "request" ELSE "release"
    /\ Raise("CancelledError")
    /\ UNCHANGED <<limit, now, end_time, backoff, resp, result, delay,
                   attempts, decodes, released, sleeps, backoffs, verdict,
                   value, schema, valid>>

NextCancel ==
    \/ Next
    \/ CancelSleep
    \/ CancelDecode
    \/ CancelCall

SpecCancel == Init /\ [][NextCancel]_vars

TypeOK ==
    /\ pc \in {"entry", "request", "decode", "release_backoff", "sleep_backoff",
               "release_retry_after", "release_rate_limit", "sleep_rate_limit",
               "done", "raised", "checked", "is_valid", "validated"}
    /\ limit \in Limits
    /\ attempts \in 0 .. MaxAttempts
    /\ valid \in {"none", "True", "False", "TypeError", "NameError"}
    /\ exc \in {"none", "TypeError", "NameError", "CancelledError"}
    /\ cancelled \in {"none", "request", "decode", "release", "sleep"}

----------------------------------------------------------------------------
\* Properties of retry.

\* C1: retry ends only by returning a response that req_func produced; no
\* exception ever leaves it, whatever the statuses, headers and bodies are.
\* Refuted: NameError on the Retry-After path, TypeError on scalar bodies.
C1_NeverRaises ==
    /\ pc # "raised"
    /\ exc = "none"
    /\ pc = "done" => returned.id \in 1 .. attempts

\* C2: a 429 whose body decodes and whose Retry-After header is a string of
\* digits d, with now + d seconds within the deadline, is released, slept on
\* for exactly d seconds and followed by another request: retry never ends
\* on such a response.
\* Refuted: the statement that reads the header raises NameError.
C2_RetryAfterIsSleptOn ==
    (/\ IsRetryAfter(resp)
     /\ resp.body.kind # "undecodable"
     /\ now + SleepSpan(ParseInt(resp.headers.text)) <= end_time
     /\ pc \notin {"decode", "release_retry_after"})
        => /\ pc = "sleep_retry_after"
           /\ delay = ParseInt(resp.headers.text)
           /\ resp.id \in released

\* C3: when the release on a rate-limit path completes and the hint would
\* end after the deadline (Retry-After: now + d s > deadline; retry_after_ms:
\* now + m ms > deadline), retry returns the current response, begins no
\* sleep and makes no further request.
\* Refuted on the Retry-After path, which raises NameError instead.
C3_LateHintReturns ==
    [][(\/ /\ pc = "release_retry_after"
           /\ now' + SleepSpan(ParseInt(resp.headers.text)) > end_time
        \/ /\ pc = "release_rate_limit"
           /\ now' + result.ram > end_time)
        => /\ pc' = "done"
           /\ returned' = resp
           /\ sleeps' = sleeps
           /\ attempts' = attempts]_vars

\* C4 (as claimed): a response with status >= 400 whose body has errcode
\* M_LIMIT_EXCEEDED and an integer retry_after_ms = m, with no valid 429
\* Retry-After hint and now + m ms within the deadline, is slept on for
\* exactly ceil(m / 1000) seconds.
\* Refuted for negative m once the deadline has passed: retry returns.
C4_RateLimitIsSleptOn ==
    (/\ resp.status >= SuccessBelow
     /\ LimitExceededTest(resp.body) = "yes"
     /\ ~IsRetryAfter(resp)
     /\ now + resp.body.ram <= end_time
     /\ pc \notin {"decode", "release_rate_limit"})
        => /\ pc = "sleep_rate_limit"
           /\ MsPerSecond * delay >= resp.body.ram
           /\ MsPerSecond * (delay - 1) < resp.body.ram

\* C4 (amended): the same, provided the deadline has not passed when the
\* decoded body is examined; if it has, the response is returned unreleased.
C4_RateLimitIsSleptOnBeforeDeadline ==
    (/\ resp.status >= SuccessBelow
     /\ LimitExceededTest(resp.body) = "yes"
     /\ ~IsRetryAfter(resp)
     /\ now + resp.body.ram <= end_time
     /\ pc \notin {"decode", "release_rate_limit"})
        => \/ /\ pc = "sleep_rate_limit"
              /\ MsPerSecond * delay >= resp.body.ram
              /\ MsPerSecond * (delay - 1) < resp.body.ram
              /\ resp.id \in released
           \/ /\ pc = "done"
              /\ now > end_time
              /\ returned = resp
              /\ resp.id \notin released

\* C4 witness: retry_after_ms = 1500 is being slept on for 2 seconds.
C4_Witness ==
    /\ pc = "sleep_rate_limit"
    /\ resp.body.ram = 1500
    /\ delay = 2

\* C5: a response with status >= 400 whose body decodes and which matches
\* neither rate-limit shape is returned at once: no release, no sleep, no
\* further request.
\* Refuted: a body that is null, a boolean or a number raises TypeError.
C5_OtherErrorReturns ==
    (/\ resp.status >= SuccessBelow
     /\ resp.body.kind # "undecodable"
     /\ ~IsRetryAfter(resp)
     /\ ~(/\ resp.body.kind = "object"
          /\ resp.body.has_errcode
          /\ resp.body.errcode = "M_LIMIT_EXCEEDED"
          /\ resp.body.ram_type = "int")
     /\ pc # "decode")
        => /\ pc = "done"
           /\ returned = resp
           /\ resp.id \notin released
           /\ attempts = resp.id

\* C6: a response with status < 400 is returned at once: its body is not
\* decoded, it is not released, no sleep follows and req_func is not called
\* again; every earlier iteration decoded and slept once, so a first
\* response below 400 ends retry after one attempt, no decode and no sleep.
C6_SuccessReturnsAtOnce ==
    (resp.id >= 1 /\ resp.status < 400)
        => /\ pc = "done"
           /\ returned = resp
           /\ attempts = resp.id
           /\ decodes = attempts - 1
           /\ sleeps = attempts - 1
           /\ resp.id \notin released

\* C6 witness: the first response is a 200 and retry has returned it.
C6_Witness ==
    /\ pc = "done"
    /\ returned.status = 200
    /\ attempts = 1
    /\ sleeps = 0

\* C7: retry has called req_func at least once when it returns, also for a
\* limit of 0 or below.
C7_AtLeastOneAttempt ==
    pc = "done" => (attempts >= 1 /\ returned.id >= 1)

\* C7 witness: retry has returned under a negative limit.
C7_Witness ==
    /\ pc = "done"
    /\ limit < 0
    /\ attempts = 1

\* C8 (as claimed): with limit = 0 and a first response 503 with an
\* undecodable body, retry returns that response with no release, no sleep
\* and no second request, however little time the request and decode took.
\* Refuted when the clock reads the same value as at entry.
C8_ZeroLimitReturnsFirst ==
    (/\ limit = 0
     /\ resp.id = 1
     /\ resp.status = 503
     /\ resp.body.kind = "undecodable"
     /\ pc # "decode")
        => /\ pc = "done"
           /\ returned = resp
           /\ sleeps = 0
           /\ released = {}

\* C8 (amended): the same, provided the clock reading at the deadline check
\* is later than the reading at entry.
C8_ZeroLimitReturnsFirstIfClockAdvanced ==
    [][(/\ pc = "decode"
        /\ limit = 0
        /\ resp.id = 1
        /\ resp.status = 503
        /\ resp.body.kind = "undecodable"
        /\ now' > end_time)
        => /\ pc' = "done"
           /\ returned' = resp
           /\ attempts' = 1
           /\ sleeps' = 0
           /\ released' = {}]_vars

\* C8 witness: limit 0, the first 503 with an undecodable body was returned.
C8_Witness ==
    /\ pc = "done"
    /\ limit = 0
    /\ returned.status = 503
    /\ returned.body.kind = "undecodable"
    /\ attempts = 1
    /\ sleeps = 0
    /\ now > end_time

RECURSIVE Pow2(_)
Pow2(n) == IF n = 0 THEN 1 ELSE 2 * Pow2(n - 1)

\* C9: the n-th sleep of the decode-failure path finds backoff = 2^n and
\* lasts min(2^n ms, deadline - now), in the unit of the deadline.
\* Refuted: the number is handed to asyncio.sleep, which counts seconds.
C9_BackoffSleepInMilliseconds ==
    pc = "sleep_backoff"
        => /\ backoff = Pow2(backoffs)
           /\ SleepSpan(delay) = Max(0, Min(Pow2(backoffs), end_time - now))

\* C10: no sleep (of positive length) is begun that is scheduled to end
\* after the deadline, on the backoff path or on a rate-limit path.
\* Refuted: backoff sleeps are 1000 times too long, and ceil(m / 1000)
\* seconds may exceed m milliseconds.
C10_NoSleepPastDeadline ==
    (pc \in {"sleep_backoff", "sleep_rate_limit"} /\ delay > 0)
        => now + SleepSpan(delay) <= end_time

----------------------------------------------------------------------------
\* check_response, applied by the caller to the response retry returned.
\* resp.json() has the outcome it had, or would have had, in retry: the body
\* is the same, and a body that was decoded once is cached by the response.

\* Mutant of IsErrorStatus: 200 itself is taken for an error.
IsErrorStatusFrom200(status) == status <= 200 \/ status >= 400

\* `resp.status < 200 or resp.status >= 400`
IsErrorStatus(status) == status < 200 \/ status >= 400

\* `"errcode" not in result`: raises TypeError on None, a bool or a number.
ErrcodeIn(b) ==
    IF b.kind = "scalar" THEN "TypeError"
    ELSE IF b.has_errcode THEN "yes" ELSE "no"

NotMatrixServerError == [kind |-> "NotMatrixServerError", status |-> 0, body |-> NoBody]
MatrixError(code, b) == [kind |-> "MatrixError", status |-> code, body |-> b]
Returned(code, b) == [kind |-> "return", status |-> code, body |-> b]

\* Mutant of Classify: without `except error.MatrixError: raise`, the bare
\* except turns every exception into NotMatrixServerError.
ClassifyWithoutReraise(r) ==
    IF IsErrorStatus(r.status) \/ r.body.kind = "undecodable"
    THEN NotMatrixServerError
    ELSE Returned(r.status, r.body)

\* The body of check_response: what it returns or raises for r.  Whatever
\* is raised inside the try, MatrixError excepted, is caught by the bare
\* except and replaced by NotMatrixServerError.
Classify(r) ==
    IF IsErrorStatus(r.status)
    THEN IF r.body.kind = "undecodable" THEN NotMatrixServerError
         ELSE IF ErrcodeIn(r.body) = "yes" THEN MatrixError(r.status, r.body)
         ELSE NotMatrixServerError
    ELSE IF r.body.kind = "undecodable" THEN NotMatrixServerError
         ELSE Returned(r.status, r.body)

\* The caller hands the response retry returned to check_response.
CheckResponse ==
    /\ pc = "done"
    /\ pc' = "checked"
    /\ verdict' = Classify(returned)
    /\ UNCHANGED <<limit, now, end_time, backoff, resp, result, delay,
                   attempts, decodes, released, sleeps, backoffs, returned,
                   exc, cancelled, value, schema, valid>>

NextCheck ==
    \/ Next
    \/ CheckResponse

SpecCheck == Init /\ [][NextCheck]_vars

C20_SuccessAgrees ==
    (/\ pc = "checked"
     /\ returned.status < 400
     /\ returned.body.kind # "undecodable")
        => verdict = Returned(returned.status, returned.body)

\* C20 (amended): the same for the statuses from 200 on.
C20_SuccessAgreesFrom200 ==
    (/\ pc = "checked"
     /\ 200 <= returned.status
     /\ returned.status < 400
     /\ returned.body.kind # "undecodable")
        => verdict = Returned(returned.status, returned.body)

\* C20 witness: a 200 with a decoded body went through both.
C20_Witness ==
    /\ pc = "checked"
    /\ returned.status = 200
    /\ returned.body.kind = "object"
    /\ decodes = attempts - 1
    /\ verdict.kind = "return"

----------------------------------------------------------------------------
\* is_valid of src/schema.py.  A JSON value is a scalar (int, str, bool), a
\* dict of scalars or a list of scalars; a dict is a function from its keys.
\* A dict schema is the sequence of its (key, schema) entries in the order
\* dict.items yields them.

AllKeys == <<"a", "b", "c">>
Keys == {AllKeys[i] : i \in 1 .. MaxKeys}

Scalars == {[kind |-> "int"], [kind |-> "str"], [kind |-> "bool"]}
Dicts == {[kind |-> "dict", items |-> f] : f \in UNION {[D -> Scalars] : D \in SUBSET Keys}}
Lists == {[kind |-> "list", elems |-> e] : e \in UNION {[1 .. n -> Scalars] : n \in 0 .. MaxListLen}}
Values == Scalars \cup Dicts \cup Lists

AnySchema == [tag |-> "Any"]
Type(t) == [tag |-> "type", type |-> t]
Optional(base) == [tag |-> "Optional", base_type |-> base]
Union(bases) == [tag |-> "Union", base_types |-> bases]
Intersection(bases) == [tag |-> "Intersection", base_types |-> bases]
Object(vt) == [tag |-> "Object", value_type |-> vt]
Array(vt) == [tag |-> "Array", value_type |-> vt]
ListOf(base) == [tag |-> "list[]", base |-> base]
DictOf(kt, base) == [tag |-> "dict[]", key_type |-> kt, base |-> base]
Shape(entries) == [tag |-> "dict", entries |-> entries]
Unrecognized == [tag |-> "other"]

\* The schemas of the entries of a dict schema, and of the elements of the
\* uniform schemas.
EntrySchemas == {Type("int"), Type("str"), Optional(Type("int"))}
ElementSchemas == {Type("int"), Type("str")}

\* Sequences of entries with pairwise distinct keys.
Shapes ==
    {Shape(e) : e \in
        {q \in UNION {[1 .. n -> [key : Keys, schema : EntrySchemas]] : n \in 0 .. MaxKeys} :
            \A i, j \in 1 .. Len(q) : i # j => q[i].key # q[j].key}}

Schemas ==
    {AnySchema, Type("int"), Type("str"), Type("bool"), Type("dict"),
     Type("list"), Unrecognized,
     Union(<<Type("int"), Type("bool")>>),
     Union(<<Object(Type("int")), Type("dict")>>),
     Intersection(<<Type("int"), AnySchema>>),
     Intersection(<<Type("int"), Type("str")>>)}
        \cup {Optional(b) : b \in ElementSchemas}
        \cup {Object(b) : b \in ElementSchemas}
        \cup {Array(b) : b \in ElementSchemas}
        \cup {ListOf(b) : b \in ElementSchemas}
        \cup {DictOf(k, b) : k \in {"str", "int"}, b \in ElementSchemas}
        \cup Shapes

RECURSIVE IsValid(_, _)
RECURSIVE ShapeFrom(_, _, _)
RECURSIVE UnionFrom(_, _, _)
RECURSIVE IntersectionFrom(_, _, _)
RECURSIVE AllFrom(_, _, _)

\* for key, value_schema in dict.items(schema): from the i-th entry on.  An
\* absent key RETURNS isinstance(value_schema, Optional); a present key whose
\* value is not valid returns False.
ShapeFrom(body, entries, i) ==
    IF i > Len(entries) THEN "True"
    ELSE IF entries[i].key \notin DOMAIN body.items
         THEN IF entries[i].schema.tag = "Optional" THEN "True" ELSE "False"
         ELSE LET r == IsValid(body.items[entries[i].key], entries[i].schema)
              IN  IF r = "True" THEN ShapeFrom(body, entries, i + 1) ELSE r

\* Union.is_valid: for t in self.base_types, from the i-th on.
UnionFrom(body, bases, i) ==
    IF i > Len(bases) THEN "False"
    ELSE LET r == IsValid(body, bases[i])
         IN  IF r = "False" THEN UnionFrom(body, bases, i + 1) ELSE r

\* Intersection.is_valid: for t in self.base_types, from the i-th on.
IntersectionFrom(body, bases, i) ==
    IF i > Len(bases) THEN "True"
    ELSE LET r == IsValid(body, bases[i])
         IN  IF r = "True" THEN IntersectionFrom(body, bases, i + 1) ELSE r

\* for item in body: if not is_valid(item, base): return False, from the i-th
\* element on (also Array.is_valid's all(...)).
AllFrom(elems, base, i) ==
    IF i > Len(elems) THEN "True"
    ELSE LET r == IsValid(elems[i], base)
         IN  IF r = "True" THEN AllFrom(elems, base, i + 1) ELSE r

\* Object.is_valid: type(body) == dict and all(... for value in body.values).
\* body.values is the bound method, not its result: building the generator
\* over it raises TypeError.
ObjectIsValid(body, vt) ==
    IF body.kind # "dict" THEN "False" ELSE "TypeError"

\* The dict[...] branch of is_valid: `key+type` names `key`, which is bound
\* nowhere, so the test raises NameError.
DictOfIsValid(body, kt, base) ==
    IF body.kind # "dict" THEN "False" ELSE "NameError"

\* is_valid(body, schema): "True", "False", or the exception that leaves it.
IsValid(body, sch) ==
    CASE sch.tag = "Any" -> "True"
      [] sch.tag = "type" -> IF body.kind = sch.type THEN "True" ELSE "False"
      [] sch.tag = "dict" ->
            IF body.kind # "dict" THEN "False"
            ELSE ShapeFrom(body, sch.entries, 1)
      [] sch.tag = "Optional" -> IsValid(body, sch.base_type)
      [] sch.tag = "Union" -> UnionFrom(body, sch.base_types, 1)
      [] sch.tag = "Intersection" -> IntersectionFrom(body, sch.base_types, 1)
      [] sch.tag = "Object" -> ObjectIsValid(body, sch.value_type)
      [] sch.tag = "Array" ->
            IF body.kind # "list" THEN "False"
            ELSE AllFrom(body.elems, sch.value_type, 1)
      [] sch.tag = "list[]" ->
            IF body.kind # "list" THEN "False"
            ELSE AllFrom(body.elems, sch.base, 1)
      [] sch.tag = "dict[]" -> DictOfIsValid(body, sch.key_type, sch.base)
      [] OTHER -> "False"

\* A caller is about to validate some value against some schema.
InitSchema ==
    /\ pc = "is_valid"
    /\ limit = 0
    /\ now = 0
    /\ end_time = 0
    /\ backoff = 0
    /\ resp = NoResp
    /\ result = NoBody
    /\ delay = 0
    /\ attempts = 0
    /\ decodes = 0
    /\ released = {}
    /\ sleeps = 0
    /\ backoffs = 0
    /\ returned = NoResp
    /\ exc = "none"
    /\ cancelled = "none"
    /\ verdict = NoVerdict
    /\ value \in Values
    /\ schema \in Schemas
    /\ valid = "none"

\* is_valid(value, schema) runs.
Validate ==
    /\ pc = "is_valid"
    /\ pc' = "validated"
    /\ valid' = IsValid(value, schema)
    /\ UNCHANGED <<limit, now, end_time, backoff, resp, result, delay,
                   attempts, decodes, released, sleeps, backoffs, returned,
                   exc, cancelled, verdict, value, schema>>

SpecSchema == InitSchema /\ [][Validate]_vars

----------------------------------------------------------------------------
\* C11: in every iteration that does not return its response, the response
\* is released before the sleep of that iteration begins, hence before the
\* next request: a pending sleep finds the current response released, and a
\* pending request finds every earlier response released.
C11_ReleasedBeforeSleep ==
    /\ pc \in {"sleep_backoff", "sleep_rate_limit"} => resp.id \in released
    /\ pc = "request" => released = 1 .. attempts

\* C11 witness: the second iteration is in its backoff sleep.
C11_Witness ==
    /\ pc = "sleep_backoff"
    /\ attempts = 2
    /\ released = {1, 2}

\* C12: a cancellation delivered while retry is suspended in a sleep leaves
\* retry as CancelledError: no response is returned, no further request is
\* made and the loop does not go on.
C12_CancelInSleepPropagates ==
    cancelled = "sleep"
        => /\ pc = "raised"
           /\ exc = "CancelledError"
           /\ returned = NoResp

\* C12 witness: retry was cancelled in the sleep of its second iteration.
C12_Witness ==
    /\ cancelled = "sleep"
    /\ pc = "raised"
    /\ attempts = 2
    /\ sleeps = 2

\* C19: a cancellation delivered while retry is suspended in resp.json()
\* leaves retry as CancelledError; it is never followed by a release, a
\* backoff sleep, another request or a normal return.
\* Refuted: the bare except handles it as a decode failure.
C19_CancelInDecodePropagates ==
    cancelled = "decode"
        => /\ pc = "raised"
           /\ exc = "CancelledError"
           /\ returned = NoResp

\* C16: against retryable responses only, with the clock advancing in every
\* request and every await completing, retry eventually returns (or is
\* still asking when the explored number of attempts is used up).
\* Refuted: a 429 with a Retry-After of digits ends retry by NameError.
C16_EventuallyReturns ==
    <>(pc = "done" \/ (pc = "request" /\ attempts = MaxAttempts))

\* C17: backoff never falls below its initial value, and every delay handed
\* to asyncio.sleep on the backoff path is non-negative.
\* Refuted: time that passes in release() makes end_time - now negative.
C17_BackoffDelayNonNegative ==
    /\ pc # "entry" => backoff >= InitialBackoff
    /\ pc = "sleep_backoff" => delay >= 0

\* C18: a response that retry returns was never released by retry.
\* Refuted: on the M_LIMIT_EXCEEDED path the response is released before
\* the hint is tested against the deadline, and returned if it is late.
C18_ReturnedIsUnreleased ==
    pc = "done" => returned.id \notin released

----------------------------------------------------------------------------
\* C14: for every value v and every dict schema m, is_valid(v, m) is true
\* iff v is a dict and every key k of m is either absent from v with m[k] an
\* Optional, or present in v with is_valid(v[k], m[k]); the order of the keys
\* of m and the choice of the absent ones do not matter, and v may have keys
\* m does not name.
C14_ShapeCharacterisation ==
    (pc = "validated" /\ schema.tag = "dict") =>
        ((valid = "True") <=>
            /\ value.kind = "dict"
            /\ \A i \in 1 .. Len(schema.entries) :
                  LET key == schema.entries[i].key
                      value_schema == schema.entries[i].schema
                  IN  \/ /\ key \notin DOMAIN value.items
                         /\ value_schema.tag = "Optional"
                      \/ /\ key \in DOMAIN value.items
                         /\ IsValid(value.items[key], value_schema) = "True")

\* C15: for Object(value_type) and for dict[str, value_type], is_valid(v, s)
\* returns True iff v is a dict whose every value matches value_type, and
\* returns False otherwise; dict[K, value_type] with K other than str is
\* False for every v.
C15_UniformMapCharacterisation ==
    (pc = "validated" /\ schema.tag \in {"Object", "dict[]"}) =>
        LET value_type == IF schema.tag = "Object" THEN schema.value_type
                          ELSE schema.base
            matches ==
                /\ value.kind = "dict"
                /\ schema.tag = "dict[]" => schema.key_type = "str"
                /\ \A k \in DOMAIN value.items :
                      IsValid(value.items[k], value_type) = "True"
        IN  valid = IF matches THEN "True" ELSE "False"

====
